---- MODULE Spec2Model ----
(***************************************************************************)
(* State-machine model of main.py: the timed acquisition loop, the bounded *)
(* deque of retained photo paths, the matcher/solver step with its         *)
(* try/except, the camera handle and the final aggregation.                *)
(*                                                                         *)
(* Photo paths photo_<i>.jpg are modelled by their index i.  Wall-clock    *)
(* time is counted in minutes; datetime.now() returns the current value of *)
(* `clock`.  Velocities are whole m/s, heights whole metres; the float     *)
(* arithmetic of the solver is modelled in integer arithmetic, scaled so   *)
(* that every intermediate value fits 32 bits.  The wall clock is taken to *)
(* be monotone (no backward step of the system time during a run), and     *)
(* writing result.txt is taken to succeed.                                 *)
(***************************************************************************)
EXTENDS Integers, Sequences, FiniteSets

VARIABLES
    pc,                        \* position of main()
    clock,                     \* wall clock (minutes), read by datetime.now()
    start_time, now_time, previous_time,
    k,                         \* image counter
    images_deque,              \* deque of retained photo indices, oldest first
    files,                     \* photo indices whose file exists in img/
    unlinked,                  \* the os.unlink calls made so far, in order
    time_difference,           \* seconds between the last two stamps
    average_feature_distance,  \* mean pixel displacement of the last matched pair
    v_list, h_list,
    exc,                       \* exception in flight / that ended main(), or "none"
    cam_closes,                \* number of cam.close() calls
    estimate_kmps,             \* <<numerator, denominator>> of the estimate in km/s
    result_file,               \* the strings written to result.txt, in order
    horizon,                   \* number of frames the run has time for
    scene                      \* displacements the scene can produce

vars == <<pc, clock, start_time, now_time, previous_time, k, images_deque, files,
          unlinked, time_difference, average_feature_distance, v_list, h_list,
          exc, cam_closes, estimate_kmps, result_file, horizon, scene>>

----------------------------------------------------------------------------
\* Bounds of the model.
MaxK == 4              \* frames of a short run
MaxFrames == 45        \* frames of a long run (more than the deque keeps)
TickMinutes == 3       \* granularity of the modelled clock, in minutes
MaxStartClock == 1     \* the clock reads 0..MaxStartClock when main() starts

\* Program constants.
Capacity == 42         \* len(images_deque) >= 42
Duration == 9          \* timedelta(minutes=9)
n_iteration == 8
SeedHeight == 400000   \* h = 400000
HistorySeed == 418000  \* h_list = [418000]
d_focale == 5000       \* 0.005 m, in micrometres
dim_sensore_x == 6287  \* 0.006287 m, in micrometres
n_pixel_x == 4056
GM_e9 == 398603        \* G*M = 6.67430E-11 * 5.9722E24, divided by 1e9
R == 6378100           \* 6.3781E6
FallbackNum == 76677   \* 7667.7 m/s, in tenths of m/s

Displacements == {0, 10}   \* mean pixel displacements a daylight scene gives
DarkScene == {0}           \* a scene with no resolvable motion

----------------------------------------------------------------------------
\* Pure helpers.

RECURSIVE SeqSum(_)
SeqSum(s) == IF s = <<>> THEN 0 ELSE Head(s) + SeqSum(Tail(s))

Range(s) == {s[i] : i \in 1..Len(s)}

Last(s) == s[Len(s)]

\* Integer square root by Newton's iteration from an upper estimate.  (Each
\* intermediate value is bound over a singleton set, so that it is computed
\* once.)
RECURSIVE NewtonSqrt(_, _)
NewtonSqrt(n, x) ==
    CHOOSE r \in {IF y >= x THEN x ELSE NewtonSqrt(n, y) :
                      y \in {(x + n \div x) \div 2}} : TRUE

ISqrt(n) ==
    CHOOSE r \in {IF m <= 0 THEN 0 ELSE NewtonSqrt(m, 8000) : m \in {n}} : TRUE

\* calculate_v_from_h: sqrt(G*M/(R+h)), in m/s.
calculate_v_from_h(h) ==
    ISqrt(((GM_e9 * 1000) \div ((R + h) \div 1000)) * 1000)

\* h = v/(dim_sensore_x*d)*d_focale*n_pixel_x*time_difference
HeightFrom(v, d, dt) ==
    ((v * ((d_focale * n_pixel_x) \div dim_sensore_x)) \div d) * dt

\* One round of the solver's for loop: <<v, h>> from the height h.
SolveRound(h, d, dt) ==
    CHOOSE r \in {<<v, IF d # 0 THEN HeightFrom(v, d, dt) ELSE h>> :
                      v \in {calculate_v_from_h(h)}} : TRUE

\* The for loop of the solver: n rounds from <<v, h>>; v is the last velocity.
RECURSIVE SolveRounds(_, _, _, _)
SolveRounds(n, vh, d, dt) ==
    IF n = 0 THEN vh
    ELSE CHOOSE r \in {SolveRounds(n - 1, next, d, dt) :
                           next \in {SolveRound(vh[2], d, dt)}} : TRUE

\* The loop condition of the while.
LoopCondLE(now, start) == now <= start + Duration
LoopCond(now, start) == now < start + Duration

\* len(images_deque) >= 42
NeedsEvictGT(dq) == Len(dq) > Capacity
NeedsEvictOne(dq) == Len(dq) >= 1
NeedsEvict(dq) == Len(dq) >= Capacity

\* images_deque.popleft(): the element removed, and the deque left.
PopRight(dq) == <<Last(dq), SubSeq(dq, 1, Len(dq) - 1)>>
PopLeft(dq) == <<Head(dq), Tail(dq)>>

\* os.unlink(path) on the set of existing files.
KeepFile(fs, p) == fs
Unlink(fs, p) == fs \ {p}

\* The exceptions the except clause of the loop handles.
HandledOnlyZeroDivision(e) == e \in {"ZeroDivisionError"}
Handled(e) == e \in {"cv2.error", "ZeroDivisionError"}

\* len(v_list) > 0
HasSamplesTwo(v) == Len(v) > 1
HasSamples(v) == Len(v) > 0

\* estimate_mps as a fraction: the mean of v_list, or the fallback 7667.7.
EstimateMps(v) ==
    IF HasSamples(v) THEN <<SeqSum(v), Len(v)>> ELSE <<FallbackNum, 10>>

\* estimate_kmps = estimate_mps / 1000
ToKmps(q) == <<q[1], q[2] * 1000>>

\* "{:.4f}".format(x): x rounded to 4 fractional digits (ties to even), given
\* as the integer number of 1e-4 units.
Format4(q) ==
    LET whole == q[1] \div q[2]
        rest == q[1] % q[2]
        digits == (rest * 10000) \div q[2]
        left == (rest * 10000) % q[2]
        up == \/ 2 * left > q[2]
              \/ 2 * left = q[2] /\ digits % 2 = 1
    IN  whole * 10000 + digits + (IF up THEN 1 ELSE 0)

----------------------------------------------------------------------------
InitWith(frames, displacements) ==
    /\ pc = "start"
    /\ clock \in 0..MaxStartClock
    /\ start_time = 0
    /\ now_time = 0
    /\ previous_time = 0
    /\ k = -1
    /\ images_deque = <<>>
    /\ files = {}
    /\ unlinked = <<>>
    /\ time_difference = 0
    /\ average_feature_distance = 0
    /\ v_list = <<>>
    /\ h_list = <<>>
    /\ exc = "none"
    /\ cam_closes = 0
    /\ estimate_kmps = <<0, 1>>
    /\ result_file = <<>>
    /\ horizon = frames
    /\ scene = displacements

\* A short run over a scene with and without resolvable motion.
Init == InitWith(MaxK, Displacements)

\* A run long enough to fill the deque and evict, over a scene without
\* resolvable motion (every matched pair gives displacement 0).
InitLong == InitWith(MaxFrames, DarkScene)

InBody == pc \in {"evict", "capture", "retain", "features", "match", "solve", "except"}

\* Time passes while main() is inside the loop.
Tick ==
    /\ pc \in {"test", "stamp"} \cup {"evict", "capture", "retain", "features",
                                      "match", "solve", "except"}
    /\ clock < start_time + Duration
    /\ clock' = clock + TickMinutes
    /\ UNCHANGED <<pc, start_time, now_time, previous_time, k, images_deque, files,
                   unlinked, time_difference, average_feature_distance, v_list,
                   h_list, exc, cam_closes, estimate_kmps, result_file, horizon,
                   scene>>

\* Lines 68-84: camera created, both time stamps taken, lists initialised.
Start ==
    /\ pc = "start"
    /\ start_time' = clock
    /\ now_time' = clock
    /\ h_list' = <<HistorySeed>>
    /\ v_list' = <<>>
    /\ k' = -1
    /\ pc' = "test"
    /\ UNCHANGED <<clock, previous_time, images_deque, files, unlinked,
                   time_difference, average_feature_distance, exc, cam_closes,
                   estimate_kmps, result_file, horizon, scene>>

\* Line 85: the while test, on the stamp taken at the start of the previous
\* repetition (on the stamp of line 80 the first time).
LoopTest ==
    /\ pc = "test"
    /\ pc' = IF LoopCond(now_time, start_time) THEN "stamp" ELSE "close"
    /\ UNCHANGED <<clock, start_time, now_time, previous_time, k, images_deque,
                   files, unlinked, time_difference, average_feature_distance,
                   v_list, h_list, exc, cam_closes, estimate_kmps, result_file,
                   horizon, scene>>

\* Lines 86-89: counter, path and time stamps of this repetition.  A run has
\* time for `horizon` frames: the stamp of its last frame has reached the bound.
Stamp ==
    /\ pc = "stamp"
    /\ \/ k + 2 < horizon
       \/ clock >= start_time + Duration
    /\ k' = k + 1
    /\ previous_time' = now_time
    /\ now_time' = clock
    /\ pc' = "evict"
    /\ UNCHANGED <<clock, start_time, images_deque, files, unlinked,
                   time_difference, average_feature_distance, v_list, h_list, exc,
                   cam_closes, estimate_kmps, result_file, horizon, scene>>

\* Lines 90-92: os.unlink(images_deque.popleft()) when the deque is full.
\* os.unlink of a missing file raises FileNotFoundError, which nothing catches.
Evict ==
    /\ pc = "evict"
    /\ IF NeedsEvict(images_deque)
       THEN LET popped == PopLeft(images_deque)
            IN  /\ images_deque' = popped[2]
                /\ IF popped[1] \in files
                   THEN /\ files' = Unlink(files, popped[1])
                        /\ unlinked' = Append(unlinked, popped[1])
                        /\ pc' = "capture"
                        /\ exc' = exc
                   ELSE /\ pc' = "crashed"
                        /\ exc' = "FileNotFoundError"
                        /\ UNCHANGED <<files, unlinked>>
       ELSE /\ pc' = "capture"
            /\ UNCHANGED <<images_deque, files, unlinked, exc>>
    /\ UNCHANGED <<clock, start_time, now_time, previous_time, k, time_difference,
                   average_feature_distance, v_list, h_list, cam_closes,
                   estimate_kmps, result_file, horizon, scene>>

\* Line 93: cam.capture(image_path).  It writes the file, or raises; a capture
\* that raises may leave a partial file behind.  Nothing catches the exception.
Capture ==
    /\ pc = "capture"
    /\ \/ /\ files' = files \cup {k}
          /\ pc' = "retain"
          /\ exc' = exc
       \/ /\ files' \in {files, files \cup {k}}
          /\ pc' = "crashed"
          /\ exc' = "PiCameraError"
    /\ UNCHANGED <<clock, start_time, now_time, previous_time, k, images_deque,
                   unlinked, time_difference, average_feature_distance, v_list,
                   h_list, cam_closes, estimate_kmps, result_file, horizon, scene>>

\* Line 94: images_deque.append(image_path); line 97 decides what follows.
Retain ==
    /\ pc = "retain"
    /\ images_deque' = Append(images_deque, k)
    /\ pc' = IF k # 0 THEN "features" ELSE "test"
    /\ UNCHANGED <<clock, start_time, now_time, previous_time, k, files, unlinked,
                   time_difference, average_feature_distance, v_list, h_list, exc,
                   cam_closes, estimate_kmps, result_file, horizon, scene>>

\* Lines 98-103: time difference, imread of photo k-1 and photo k, ORB.
\* imread of a missing file gives None and detectAndCompute(None) raises
\* cv2.error; detectAndCompute may also raise on a readable image.  These
\* lines are outside the try.
Features ==
    /\ pc = "features"
    /\ time_difference' = (now_time - previous_time) * 60
    /\ \/ /\ {k - 1, k} \subseteq files
          /\ pc' = "match"
          /\ exc' = exc
       \/ /\ pc' = "crashed"
          /\ exc' = "cv2.error"
    /\ UNCHANGED <<clock, start_time, now_time, previous_time, k, images_deque,
                   files, unlinked, average_feature_distance, v_list, h_list,
                   cam_closes, estimate_kmps, result_file, horizon, scene>>

\* Lines 104-107: inside the try.  calculate_matches raises cv2.error, or the
\* matches give the mean distance (0 when there are no matches).
Match ==
    /\ pc = "match"
    /\ \/ /\ exc' = "cv2.error"
          /\ pc' = "except"
          /\ UNCHANGED average_feature_distance
       \/ \E d \in scene :
            /\ average_feature_distance' = d
            /\ pc' = "solve"
            /\ exc' = exc
    /\ UNCHANGED <<clock, start_time, now_time, previous_time, k, images_deque,
                   files, unlinked, time_difference, v_list, h_list, cam_closes,
                   estimate_kmps, result_file, horizon, scene>>

\* Lines 109-117: the 8 rounds from h = 400000, then both appends.
Solve ==
    /\ pc = "solve"
    /\ \E vh \in {SolveRounds(n_iteration, <<0, SeedHeight>>,
                                average_feature_distance, time_difference)} :
          /\ v_list' = Append(v_list, vh[1])
          /\ h_list' = Append(h_list, vh[2])
    /\ pc' = "test"
    /\ UNCHANGED <<clock, start_time, now_time, previous_time, k, images_deque,
                   files, unlinked, time_difference, average_feature_distance, exc,
                   cam_closes, estimate_kmps, result_file, horizon, scene>>

\* Line 118: except (cv2.error, ZeroDivisionError): pass
Except ==
    /\ pc = "except"
    /\ IF Handled(exc)
       THEN /\ exc' = "none"
            /\ pc' = "test"
       ELSE /\ exc' = exc
            /\ pc' = "crashed"
    /\ UNCHANGED <<clock, start_time, now_time, previous_time, k, images_deque,
                   files, unlinked, time_difference, average_feature_distance,
                   v_list, h_list, cam_closes, estimate_kmps, result_file, horizon,
                   scene>>

\* Line 121: cam.close()
Close ==
    /\ pc = "close"
    /\ cam_closes' = cam_closes + 1
    /\ pc' = "aggregate"
    /\ UNCHANGED <<clock, start_time, now_time, previous_time, k, images_deque,
                   files, unlinked, time_difference, average_feature_distance,
                   v_list, h_list, exc, estimate_kmps, result_file, horizon, scene>>

\* Lines 123-127: the mean or the fallback, converted to km/s.
Aggregate ==
    /\ pc = "aggregate"
    /\ estimate_kmps' = ToKmps(EstimateMps(v_list))
    /\ pc' = "write"
    /\ UNCHANGED <<clock, start_time, now_time, previous_time, k, images_deque,
                   files, unlinked, time_difference, average_feature_distance,
                   v_list, h_list, exc, cam_closes, result_file, horizon, scene>>

\* Lines 130-137: format to 4 decimals and write result.txt.
WriteResult ==
    /\ pc = "write"
    /\ result_file' = Append(result_file, Format4(estimate_kmps))
    /\ pc' = "done"
    /\ UNCHANGED <<clock, start_time, now_time, previous_time, k, images_deque,
                   files, unlinked, time_difference, average_feature_distance,
                   v_list, h_list, exc, cam_closes, estimate_kmps, horizon, scene>>

Step ==
    \/ Start
    \/ LoopTest
    \/ Stamp
    \/ Evict
    \/ Capture
    \/ Retain
    \/ Features
    \/ Match
    \/ Solve
    \/ Except
    \/ Close
    \/ Aggregate
    \/ WriteResult

Next == Step \/ Tick

Spec == Init /\ [][Next]_vars

SpecLong == InitLong /\ [][Next]_vars

\* The interpreter keeps executing main() and the wall clock keeps advancing.
FairSpec == Init /\ [][Next]_vars /\ WF_vars(Step) /\ WF_vars(Tick)

----------------------------------------------------------------------------
\* Properties.

Bound == start_time + Duration

Occurrences(s, x) == Cardinality({j \in 1..Len(s) : s[j] = x})

\* C1: a failure raised by the capture, by the measurement (image conversion,
\* feature detection, matching) or by the solver of a repetition never ends
\* main() before the loop's normal exit.
C1_FaultIsolation ==
    ~(pc = "crashed" /\ exc \in {"PiCameraError", "cv2.error", "ZeroDivisionError"})

\* C2: once the loop has ended, exactly one result is written, without any
\* fault: the fallback 7.6677 km/s when v_list is empty, else the arithmetic
\* mean of v_list divided by 1000 (written rounded to 4 decimals).
C2_Aggregator ==
    /\ Len(result_file) <= 1
    /\ pc \in {"close", "aggregate", "write", "done"} => exc = "none"
    /\ pc \in {"write", "done"} =>
          IF v_list = <<>>
          THEN estimate_kmps[1] * 10000 = FallbackNum * estimate_kmps[2]
          ELSE estimate_kmps[1] * Len(v_list) * 1000 = SeqSum(v_list) * estimate_kmps[2]
    /\ pc = "done" =>
          /\ Len(result_file) = 1
          /\ v_list = <<>> => result_file[1] = FallbackNum
          /\ LET diff == result_file[1] * estimate_kmps[2] - estimate_kmps[1] * 10000
             IN  /\ 2 * diff <= estimate_kmps[2]
                 /\ 2 * diff >= - estimate_kmps[2]

C2_Witness ==
    /\ pc = "done"
    /\ k >= 2
    /\ v_list = <<>>
    /\ result_file = <<FallbackNum>>

\* C3: right after the loop has retained N > 42 frames (photo_0..photo_{N-1},
\* N = k+1), exactly N - 42 eviction-deletions have occurred and the deque
\* holds photo_{N-42}..photo_{N-1}, oldest first.
C3_FrameBuffer ==
    (images_deque # <<>> /\ Last(images_deque) = k /\ k + 1 > Capacity) =>
        /\ Len(unlinked) = k + 1 - Capacity
        /\ Len(images_deque) = Capacity
        /\ \A i \in 1..Capacity : images_deque[i] = k - Capacity + i

C3_Witness ==
    /\ pc = "test"
    /\ k = Capacity + 1
    /\ Last(images_deque) = k
    /\ Len(unlinked) = 2

\* C4: a pair whose mean pixel displacement is 0 appends no velocity sample:
\* v_list after the solver step equals v_list before it.
C4_ZeroSkipped ==
    [][(pc = "solve" /\ average_feature_distance = 0) => v_list' = v_list]_vars

\* C5 (as stated): no repetition begins at a boundary at which the wall clock
\* has already reached the 9-minute bound.
C5_NoLateStart ==
    [][(pc = "test" /\ pc' = "stamp") => clock < Bound]_vars

\* C5 (amended): a repetition begins only if now_time, the stamp taken at the
\* start of the previous repetition, is below the bound; at most one repetition
\* is stamped at or after the bound; and main() leaves the loop.
C5_Termination ==
    /\ [][(pc = "test" /\ pc' = "stamp") => now_time < Bound]_vars
    /\ []((InBody /\ now_time >= Bound) => previous_time < Bound)
    /\ <>(pc \in {"done", "crashed"})

C5_Witness ==
    /\ InBody
    /\ k >= 1
    /\ k + 1 < horizon
    /\ previous_time < Bound
    /\ now_time >= Bound

\* C6: on every path by which the loop is left, normal end or fatal fault,
\* cam.close() has been called exactly once when main() has ended.
C6_CameraReleased ==
    pc \in {"done", "crashed"} => cam_closes = 1

\* C7: when photo_{k-1} and photo_k are read for comparison (k > 0), both are
\* in the deque, both files exist, and every eviction so far removed a frame
\* with index smaller than k-1.
C7_ComparisonWindow ==
    pc = "features" =>
        /\ k > 0
        /\ {k - 1, k} \subseteq Range(images_deque)
        /\ {k - 1, k} \subseteq files
        /\ \A i \in Range(unlinked) : i < k - 1

C7_Witness ==
    /\ pc = "features"
    /\ Len(unlinked) >= 2

\* C8: a cv2.error raised by the matcher on a pair is caught: that pair adds
\* no velocity sample and the loop goes on to its next test; and every pair
\* whose matcher returns a non-zero displacement adds exactly one sample,
\* whatever happened on the pairs before it.
C8_MatcherIsolation ==
    [][ /\ (pc = "except" /\ exc = "cv2.error") =>
              (pc' = "except" \/ (pc' = "test" /\ exc' = "none" /\ v_list' = v_list))
        /\ (pc = "solve" /\ average_feature_distance # 0) =>
              (pc' = "solve" \/
                  (/\ pc' = "test"
                   /\ Len(v_list') = Len(v_list) + 1
                   /\ SubSeq(v_list', 1, Len(v_list)) = v_list
                   /\ Last(v_list') > 0)) ]_vars

\* Pair 1 recorded a sample with non-zero displacement, pair 2 has raised.
C8_Witness ==
    /\ pc = "except"
    /\ exc = "cv2.error"
    /\ k = 2
    /\ Len(v_list) = 1
    /\ average_feature_distance # 0

C10_DiskBound ==
    /\ Len(images_deque) <= Capacity
    /\ Cardinality(files) <= Capacity
    /\ pc = "capture" => Len(images_deque) < Capacity

\* Photo k is written and not yet appended, after an eviction.
C10_Witness ==
    /\ pc = "retain"
    /\ Len(unlinked) >= 1
    /\ Cardinality(files) = Capacity
    /\ Len(images_deque) = Capacity - 1

====
